---- MODULE Spec2Model ----
(***************************************************************************)
(* homebridge-nextdns: one HomeKit switch per configured domain, mirrored  *)
(* against the NextDNS denylist of a profile.                              *)
(*                                                                         *)
(* The repository holds two sources of the class NextDNSPlatform: the one  *)
(* with the fetcher getNextDNSProfileData and try/catch around every HTTP  *)
(* call (src/unnamed/part_001) and src/src/platform.ts, which has neither. *)
(* The variable build says which of the two is loaded; everything else is  *)
(* common to both. BlockedDomainAccessory is src/unnamed/part_000.         *)
(*                                                                         *)
(* The runtime is single-threaded: every action below is one run of a      *)
(* handler from an event to its next await (or its end). The NextDNS       *)
(* service and the network are the environment: the Server* actions and    *)
(* ExternalChange.                                                         *)
(***************************************************************************)
EXTENDS Integers, Sequences, FiniteSets, TLC

\* ---------------------------------------------------------------- bounds
\* Number of blockDomain / unblockDomain calls in flight at a time.
MaxInFlight == 1
\* The same in SpecRacingSets, where one Set follows another at once.
MaxRacing == 2

\* ------------------------------------------------------------- universes
\* Domain names; the accessory UUID is a function of the domain (getUUID is
\* injective), so a domain stands for its UUID wherever a map is keyed by UUID.
Domain == {"a.com"}

Builds == {"part_001", "platform_ts"}

\* config.blockedDomains: absent (<<>> by the `|| []`), one domain, and a
\* list naming the same domain twice.
BlockedDomainLists == {<<>>, <<"a.com">>, <<"a.com", "a.com">>}

\* What a GET of the profile can come back as.
\*   neterr      fetch() rejects
\*   non2xx      a response with ok = false, its body an error document
\*   badjson     ok, the body is not JSON: response.json() rejects
\*   jsonnull    ok, the body is the JSON value null
\*   nodata      ok, a JSON object without "data"
\*   nodenylist  ok, "data" is an object without "denylist"
\*   nonarray    ok, "denylist" is a truthy value that is no array
\*   list        ok, "denylist" is an array of {id, active}
FailureKinds ==
  {"neterr", "non2xx", "badjson", "jsonnull", "nodata", "nodenylist", "nonarray"}

\* The remote state of one domain in the denylist.
EntryStates == {"absent", "on", "off"}

NoList == [d \in Domain |-> "absent"]

VARIABLES
  build,                    \* which source of NextDNSPlatform is loaded
  config,                   \* PlatformConfig: [apiKey, profileId, blockedDomains]
  listening,                \* a didFinishLaunching listener is registered
  pc,                       \* where the discovery / syncConfig chain stands
  resp,                     \* the GET response the chain is about to resume on
  accessories,              \* keys of this.accessories (restored from the cache)
  BlockedDomainAccessories, \* keys of this.BlockedDomainAccessories
  discoveredCacheUUIDs,     \* this.discoveredCacheUUIDs, as a set
  isOn,                     \* BlockedDomainAccessory.isOn, per domain
  ctxIsOn,                  \* accessory.context.isOn, per domain
  charOn,                   \* value of the Switch service's On characteristic
  registered,               \* registerPlatformAccessories calls, per domain
  unregistered,             \* domains passed to unregisterPlatformAccessories
  remote,                   \* the denylist held by the service, per domain
  ops,                      \* blockDomain / unblockDomain calls in flight, in call order
  ext,                      \* out-of-band change of a domain's entry: none,
                            \* changed (not fetched since), fetched (in resp),
                            \* synced (a poll tick applied it)
  writeFailed,              \* the remote write of a Set on the domain: none,
                            \* failed (not fetched since), fetched (in resp),
                            \* healed (a poll tick overwrote isOn)
  enables,                  \* the Enable calls on a domain since the last
                            \* Disable, failed request or out-of-band change:
                            \* none, new / old (one call; the entry did not /
                            \* did exist when it was made), new2 / old2 (more)
  lastSet,                  \* the value of the last Set on a domain (on / off),
                            \* none once a request failed, a PATCH overtook
                            \* the PATCH of an earlier call, or the entry was
                            \* changed out of band
  timers,                   \* armed setTimeout(syncConfig, 60000) timers
  cycles,                   \* syncConfig runs that have begun and not ended
  ev                        \* the handler run by the last step and its outcome

vars ==
  <<build, config, listening, pc, resp, accessories, BlockedDomainAccessories,
    discoveredCacheUUIDs, isOn, ctxIsOn, charOn, registered, unregistered,
    remote, ops, ext, writeFailed, enables, lastSet, timers, cycles, ev>>

platformVars ==
  <<accessories, BlockedDomainAccessories, discoveredCacheUUIDs, isOn, ctxIsOn,
    charOn, registered, unregistered>>

\* ------------------------------------------------------------- helpers
Range(s) == {s[i] : i \in 1..Len(s)}

RemoveAt(s, i) == [j \in 1..(Len(s) - 1) |-> IF j < i THEN s[j] ELSE s[j + 1]]

\* No mutator call: the op of an event that ends none.
NoOp ==
  [kind |-> "none", domain |-> "-", phase |-> "none", patches |-> 0,
   posts |-> 0, patchStatus |-> "none", postStatus |-> "none",
   setResult |-> "none"]

\* The last step: the handler that ran (act), the domain and value it was
\* about, what it logged, whether an exception or rejection left it, and the
\* mutator call it ended, if any.
Event(act, d, v, log, escaped) ==
  [act |-> act, d |-> d, v |-> v, log |-> log, escaped |-> escaped,
   op |-> NoOp]

\* A step of the environment (the service, the network, another client).
EnvEvent == Event("env", "-", FALSE, "none", FALSE)

EndEvent(act, log, escaped, op) ==
  [act |-> act, d |-> op.domain, v |-> op.kind = "block", log |-> log,
   escaped |-> escaped, op |-> op]

NoResp == [kind |-> "none", denylist |-> NoList]

\* ---------------------------------------------------------- constructor
\* Mutant: the guard logs but does not return, the listener is registered.
Constructor_NoReturn(cfg, b) ==
  [listening |-> TRUE,
   log |-> IF cfg.apiKey /\ cfg.profileId THEN "none"
           ELSE IF b = "part_001" THEN "warn" ELSE "error"]

\* NextDNSPlatform.constructor: without apiKey or profileId it logs and
\* returns before api.on('didFinishLaunching', ...).
Constructor(cfg, b) ==
  IF ~cfg.apiKey \/ ~cfg.profileId
    THEN [listening |-> FALSE,
          log |-> IF b = "part_001" THEN "warn" ELSE "error"]
    ELSE [listening |-> TRUE, log |-> "none"]

Init ==
  /\ build \in Builds
  /\ config \in [apiKey : BOOLEAN, profileId : BOOLEAN,
                 blockedDomains : BlockedDomainLists]
  /\ listening = Constructor(config, build).listening
  /\ ev = Event("constructor", "-", FALSE, Constructor(config, build).log, FALSE)
  /\ pc = "constructed"
  /\ resp = NoResp
  /\ accessories = {}
  /\ BlockedDomainAccessories = {}
  /\ discoveredCacheUUIDs = {}
  /\ isOn = [d \in Domain |-> FALSE]
  /\ ctxIsOn = [d \in Domain |-> FALSE]
  /\ charOn = [d \in Domain |-> FALSE]
  /\ registered = [d \in Domain |-> 0]
  /\ unregistered = {}
  /\ remote \in [Domain -> EntryStates]
  /\ ops = <<>>
  /\ ext = [d \in Domain |-> "none"]
  /\ writeFailed = [d \in Domain |-> "none"]
  /\ enables = [d \in Domain |-> "none"]
  /\ lastSet = [d \in Domain |-> "none"]
  /\ timers = 0
  /\ cycles = 0

\* configureAccessory: the host hands over an accessory restored from its
\* cache, before didFinishLaunching. prev is what the cache held for it (the
\* persisted context.isOn and On value of an earlier run).
ConfigureAccessory(d, prev) ==
  /\ pc = "constructed"
  /\ d \notin accessories
  /\ accessories' = accessories \cup {d}
  /\ ctxIsOn' = [ctxIsOn EXCEPT ![d] = prev]
  /\ charOn' = [charOn EXCEPT ![d] = prev]
  /\ ev' = Event("configureAccessory", d, prev, "none", FALSE)
  /\ UNCHANGED <<build, config, listening, pc, resp, BlockedDomainAccessories,
                 discoveredCacheUUIDs, isOn, registered, unregistered, remote,
                 ops, ext, writeFailed, enables, lastSet, timers, cycles>>

\* The host fires didFinishLaunching once. With a listener, discoverDevices
\* runs up to its first await: the GET of the profile is sent.
DidFinishLaunching ==
  /\ pc = "constructed"
  /\ pc' = IF listening THEN "discoverReq" ELSE "idle"
  /\ ev' = Event("didFinishLaunching", "-", listening, "none", FALSE)
  /\ UNCHANGED <<build, config, listening, resp, platformVars, remote, ops,
                 ext, writeFailed, enables, lastSet, timers, cycles>>

\* ------------------------------------------------------- the GET endpoint
\* The service (or the network) answers the GET the chain is waiting on. A
\* list carries the denylist as it is when the service answers.
ServerGet ==
  /\ pc \in {"discoverReq", "syncReq"}
  /\ \E k \in FailureKinds \cup {"list"} :
       resp' = [kind |-> k,
                denylist |-> IF k = "list" THEN remote ELSE NoList]
  /\ pc' = IF pc = "discoverReq" THEN "discoverResp" ELSE "syncResp"
  /\ ext' = [d \in Domain |->
               IF resp'.kind = "list" /\ ext[d] = "changed"
                 THEN "fetched" ELSE ext[d]]
  /\ writeFailed' = [d \in Domain |->
                       IF resp'.kind = "list" /\ writeFailed[d] = "failed"
                         THEN "fetched" ELSE writeFailed[d]]
  /\ ev' = EnvEvent
  /\ UNCHANGED <<build, config, listening, platformVars, remote, ops,
                 enables, lastSet, timers, cycles>>

\* Mutant: a failed read is answered by a denylist that clears every entry.
GetNextDNSProfileData_Clears(r) ==
  [ret |-> "data", denylist |-> "list",
   list |-> IF r.kind = "list" THEN r.denylist ELSE [d \in Domain |-> "off"],
   log |-> IF r.kind = "list" THEN "none" ELSE "warn"]

\* getNextDNSProfileData (part_001): null after a warning when fetch rejects,
\* the status is not ok, or reading json.data throws; otherwise json.data as
\* it is: undefined, or an object whose denylist may be missing or no array.
GetNextDNSProfileData(r) ==
  IF r.kind \in {"neterr", "non2xx", "badjson", "jsonnull"}
    THEN [ret |-> "null", denylist |-> "missing", list |-> NoList, log |-> "warn"]
  ELSE IF r.kind = "nodata"
    THEN [ret |-> "undefined", denylist |-> "missing", list |-> NoList,
          log |-> "none"]
  ELSE IF r.kind = "nodenylist"
    THEN [ret |-> "data", denylist |-> "missing", list |-> NoList, log |-> "none"]
  ELSE IF r.kind = "nonarray"
    THEN [ret |-> "data", denylist |-> "nonarray", list |-> NoList,
          log |-> "none"]
    ELSE [ret |-> "data", denylist |-> "list", list |-> r.denylist,
          log |-> "none"]

\* src/platform.ts reads the profile inline: `await fetch`, `await
\* response.json()`, then data.data.denylist.reduce / .forEach, with no check
\* and no try: anything but a well-formed list throws.
InlineFetch(r) ==
  IF r.kind = "list"
    THEN [threw |-> FALSE, list |-> r.denylist]
    ELSE [threw |-> TRUE, list |-> NoList]

\* ------------------------------------------------------------ discovery
\* Mutant: isOn keeps its field initialiser, the context is not read.
NewBlockedDomainAccessory_Default(ctx) == FALSE

\* new BlockedDomainAccessory(platform, accessory): isOn is seeded from the
\* accessory's context.
NewBlockedDomainAccessory(ctx) == (ctx = TRUE)

\* One pass of `for (const blockedDomain of blockedDomains)`.
DiscoverOne(d, list, st) ==
  LET active == (list[d] = "on")   \* !!nextDNSBlockedDomains[blockedDomain]
  IN IF d \in accessories
       THEN [st EXCEPT
               !.ctx = [@ EXCEPT ![d] = active],
               !.bda = @ \cup {d},
               !.isOn = [@ EXCEPT ![d] = NewBlockedDomainAccessory(active)],
               !.disc = @ \cup {d}]
       ELSE [st EXCEPT
               !.ctx = [@ EXCEPT ![d] = active],
               !.bda = @ \cup {d},
               !.isOn = [@ EXCEPT ![d] = NewBlockedDomainAccessory(active)],
               !.chr = [@ EXCEPT ![d] = FALSE],   \* a fresh Switch service
               !.reg = [@ EXCEPT ![d] = @ + 1],
               !.disc = @ \cup {d}]

RECURSIVE DiscoverLoop(_, _, _)
DiscoverLoop(domains, list, st) ==
  IF domains = <<>> THEN st
  ELSE DiscoverLoop(Tail(domains), list, DiscoverOne(Head(domains), list, st))

\* What discoverDevices makes of the GET response: whether it throws, the
\* denylist it goes on with, and what the fetcher logged.
DiscoverFetch(r) ==
  IF build = "part_001"
    THEN LET data == GetNextDNSProfileData(r)
         IN [threw |-> data.ret = "data" /\ data.denylist = "nonarray",
             list |-> data.list,
             log |-> data.log]
    ELSE [threw |-> InlineFetch(r).threw, list |-> InlineFetch(r).list,
          log |-> "none"]

\* discoverDevices from its await to its end. It is not wrapped in a try and
\* its promise is dropped by the didFinishLaunching listener: a throw is an
\* unhandled rejection. Its last statement calls bootstrapAsyncUpdates, which
\* calls syncConfig, which runs up to its await: the first poll GET is sent.
DiscoverDevices ==
  /\ pc = "discoverResp"
  /\ LET f == DiscoverFetch(resp)
         st0 == [ctx |-> ctxIsOn, bda |-> BlockedDomainAccessories,
                 isOn |-> isOn, chr |-> charOn, reg |-> registered,
                 disc |-> discoveredCacheUUIDs]
         st == DiscoverLoop(config.blockedDomains, f.list, st0)
     IN IF f.threw
          THEN /\ pc' = "discoverRejected"
               /\ ev' = Event("discoverDevices", "-", FALSE, f.log, TRUE)
               /\ UNCHANGED <<platformVars, cycles>>
          ELSE /\ pc' = "syncReq"
               /\ cycles' = cycles + 1
               /\ ctxIsOn' = st.ctx
               /\ BlockedDomainAccessories' = st.bda
               /\ isOn' = st.isOn
               /\ charOn' = st.chr
               /\ registered' = st.reg
               /\ discoveredCacheUUIDs' = st.disc
               /\ unregistered' = {d \in accessories : d \notin st.disc}
               /\ ev' = Event("discoverDevices", "-", resp.kind = "list",
                              f.log, FALSE)
               /\ UNCHANGED accessories
  /\ resp' = NoResp
  /\ ext' = [d \in Domain |-> IF ext[d] = "fetched" THEN "changed" ELSE ext[d]]
  /\ UNCHANGED <<build, config, listening, remote, ops, writeFailed,
                 enables, lastSet, timers>>

\* ------------------------------------------------- the reconciliation loop
\* Mutant: the entry updates the characteristic but not the cached boolean.
SyncEntry_NoCache(d, active, st) ==
  [chr |-> IF d \in accessories
             THEN [st.chr EXCEPT ![d] = active] ELSE st.chr,
   isOn |-> st.isOn]

\* Mutant: isOn is looked up in this.accessories, the map of the restored
\* accessories, instead of this.BlockedDomainAccessories.
SyncEntry_CachedOnly(d, active, st) ==
  [chr |-> IF d \in accessories
             THEN [st.chr EXCEPT ![d] = active] ELSE st.chr,
   isOn |-> IF d \in accessories /\ d \in BlockedDomainAccessories
              THEN [st.isOn EXCEPT ![d] = active] ELSE st.isOn]

\* Mutant: the two ifs are merged, isOn follows only when the characteristic
\* differed from the entry.
SyncEntry_MergedIf(d, active, st) ==
  IF d \in accessories /\ st.chr[d] # active
    THEN [chr |-> [st.chr EXCEPT ![d] = active],
          isOn |-> IF d \in BlockedDomainAccessories
                     THEN [st.isOn EXCEPT ![d] = active] ELSE st.isOn]
    ELSE st

\* Mutant: a sequencing token, the cached boolean of a domain with a mutator
\* call in flight is not overwritten.
SyncEntry_SkipInFlight(d, active, st) ==
  [chr |-> IF d \in accessories
             THEN [st.chr EXCEPT ![d] = active] ELSE st.chr,
   isOn |-> IF /\ d \in BlockedDomainAccessories
               /\ \A i \in 1..Len(ops) : ops[i].domain # d
              THEN [st.isOn EXCEPT ![d] = active] ELSE st.isOn]

\* The body of data.denylist.forEach for the entry of domain d, whose active
\* flag is `active`: the On characteristic of the accessory in
\* this.accessories, then isOn of the one in this.BlockedDomainAccessories.
\* (this.accessories.get('adf') finds nothing: no UUID is 'adf'.)
SyncEntry(d, active, st) ==
  [chr |-> IF d \in accessories
             THEN [st.chr EXCEPT ![d] = active] ELSE st.chr,
   isOn |-> IF d \in BlockedDomainAccessories
              THEN [st.isOn EXCEPT ![d] = active] ELSE st.isOn]

\* forEach over the entries of the fetched denylist (one per domain in it).
RECURSIVE SyncEntries(_, _, _)
SyncEntries(todo, list, st) ==
  IF todo = {} THEN st
  ELSE LET d == CHOOSE x \in todo : TRUE
       IN SyncEntries(todo \ {d}, list, SyncEntry(d, list[d] = "on", st))

\* Mutant: the loop walks every domain, one without an entry counts as
\* inactive.
Entries_All(list) == Domain

\* The domains the fetched denylist has an entry for.
Entries(list) == {d \in Domain : list[d] # "absent"}

\* What syncConfig makes of the GET response: whether a throw leaves it
\* (platform.ts has no try), whether the forEach runs, and what is logged.
SyncFetch(r) ==
  IF build = "part_001"
    THEN LET data == GetNextDNSProfileData(r)
             caught == data.ret = "data" /\ data.denylist # "list"
         IN [threw |-> FALSE,
             apply |-> data.ret = "data" /\ data.denylist = "list",
             list |-> data.list,
             log |-> IF caught THEN "warn" ELSE data.log]
    ELSE [threw |-> InlineFetch(r).threw,
          apply |-> ~InlineFetch(r).threw,
          list |-> InlineFetch(r).list,
          log |-> "none"]

\* Where syncConfig goes after its body: setTimeout(syncConfig, 60000) is its
\* last statement, reached unless a throw left the function.
AfterSync(threw) == IF threw THEN "syncRejected" ELSE "timer"

\* syncConfig from its await to its end.
SyncConfig ==
  /\ pc = "syncResp"
  /\ LET f == SyncFetch(resp)
         st == SyncEntries(Entries(f.list), f.list,
                           [chr |-> charOn, isOn |-> isOn])
     IN /\ pc' = AfterSync(f.threw)
        /\ timers' = IF pc' = "timer" THEN timers + 1 ELSE timers
        /\ cycles' = cycles - 1
        /\ IF f.apply
             THEN /\ charOn' = st.chr
                  /\ isOn' = st.isOn
             ELSE UNCHANGED <<charOn, isOn>>
        /\ ev' = Event("syncConfig", "-", f.apply, f.log, f.threw)
  /\ resp' = NoResp
  /\ ext' = [d \in Domain |->
               IF ext[d] # "fetched" THEN ext[d]
               ELSE IF ev'.v THEN "synced" ELSE "changed"]
  /\ writeFailed' = [d \in Domain |->
                       IF writeFailed[d] # "fetched" THEN writeFailed[d]
                       ELSE IF /\ ev'.v
                               /\ d \in Entries(resp.denylist)
                               /\ d \in BlockedDomainAccessories
                              THEN "healed" ELSE "failed"]
  /\ UNCHANGED <<build, config, listening, accessories,
                 BlockedDomainAccessories, discoveredCacheUUIDs, ctxIsOn,
                 registered, unregistered, remote, ops, enables,
                 lastSet>>

\* Mutant: setInterval, the timer stays armed after it has fired.
TimerAfterFire_Interval(t) == t

\* The armed timers once one has fired: setTimeout fires once.
TimerAfterFire(t) == t - 1

\* A 60 s timer fires: syncConfig runs up to its await, the GET is sent.
TimerFire ==
  /\ timers > 0
  /\ timers' = TimerAfterFire(timers)
  /\ cycles' = cycles + 1
  /\ pc' = "syncReq"
  /\ ev' = Event("timer", "-", FALSE, "none", FALSE)
  /\ UNCHANGED <<build, config, listening, resp, platformVars, remote, ops,
                 ext, writeFailed, enables, lastSet>>

\* ------------------------------------------------------- switch accessory
\* Mutant: setOn awaits blockDomain / unblockDomain.
SetOnResult_Awaited == "awaiting"

\* What the promise of setOn is for the host: setOn calls blockDomain /
\* unblockDomain without await, so it resolves when setOn returns.
SetOnResult == "resolved"

\* blockDomain / unblockDomain up to the await of their PATCH.
NewOp(d, value) ==
  [kind |-> IF value THEN "block" ELSE "unblock",
   domain |-> d,
   phase |-> "patch_req",
   patches |-> 1,
   posts |-> 0,
   patchStatus |-> "none",
   postStatus |-> "none",
   setResult |-> SetOnResult]

\* What setOn stores in isOn for a Set of `value`.
SetOnValue(value) == value

\* BlockedDomainAccessory.setOn, on a Set from the host.
SetOn(d, value) ==
  /\ d \in BlockedDomainAccessories
  /\ isOn' = [isOn EXCEPT ![d] = SetOnValue(value)]
  /\ ops' = Append(ops, NewOp(d, isOn'[d]))
  /\ ext' = [ext EXCEPT ![d] = "none"]
  /\ writeFailed' = [writeFailed EXCEPT ![d] = "none"]
  /\ enables' = [enables EXCEPT ![d] =
                   IF ~isOn'[d] THEN "none"
                   ELSE IF @ = "none"
                     THEN (IF remote[d] = "absent" THEN "new" ELSE "old")
                   ELSE IF @ \in {"new", "new2"} THEN "new2" ELSE "old2"]
  /\ lastSet' = [lastSet EXCEPT ![d] = IF isOn'[d] THEN "on" ELSE "off"]
  /\ ev' = Event("setOn", d, value, "none", FALSE)
  /\ UNCHANGED <<build, config, listening, pc, resp, accessories,
                 BlockedDomainAccessories, discoveredCacheUUIDs, ctxIsOn,
                 charOn, registered, unregistered, remote, timers,
                 cycles>>

\* The host calls the onSet handler of the switch of d while fewer than n
\* mutator calls are in flight.
HostSet(d, value, n) ==
  /\ Len(ops) < n
  /\ SetOn(d, value)

\* Mutant: getOn answers from the persisted context.
GetOnValue_Context(d) == ctxIsOn[d]

\* What getOn returns.
GetOnValue(d) == isOn[d]

\* BlockedDomainAccessory.getOn, on a Get from the host; ev.v is what it
\* returns.
GetOn(d) ==
  /\ d \in BlockedDomainAccessories
  /\ ev' = Event("getOn", d, GetOnValue(d), "none", FALSE)
  /\ UNCHANGED <<build, config, listening, pc, resp, platformVars, remote,
                 ops, ext, writeFailed, enables, lastSet, timers, cycles>>

\* -------------------------------------------------------- domain mutators
\* The service handles PATCH /denylist/{domain} {active}: it toggles an
\* existing entry; for a domain without an entry it answers non-2xx.
ServerPatch(i) ==
  /\ i \in 1..Len(ops)
  /\ ops[i].phase = "patch_req"
  /\ LET d == ops[i].domain
         found == remote[d] # "absent"
     IN /\ remote' = IF found
                       THEN [remote EXCEPT ![d] =
                               IF ops[i].kind = "block" THEN "on" ELSE "off"]
                       ELSE remote
        /\ ops' = [ops EXCEPT ![i].phase = "patch_resp",
                              ![i].patchStatus = IF found THEN "ok" ELSE "fail"]
  /\ enables' = IF ops[i].kind = "unblock"
                  THEN [enables EXCEPT ![ops[i].domain] = "none"] ELSE enables
  /\ ev' = EnvEvent
  /\ lastSet' = IF \E j \in 1..(i - 1) : /\ ops[j].phase = "patch_req"
                                          /\ ops[j].domain = ops[i].domain
                  THEN [lastSet EXCEPT ![ops[i].domain] = "none"] ELSE lastSet
  /\ UNCHANGED <<build, config, listening, pc, resp, platformVars, ext,
                 writeFailed, timers, cycles>>

\* The service handles POST /denylist {id, active: true}: it creates the
\* entry; for a domain that has one it answers non-2xx and changes nothing.
ServerPost(i) ==
  /\ i \in 1..Len(ops)
  /\ ops[i].phase = "post_req"
  /\ LET d == ops[i].domain
         free == remote[d] = "absent"
     IN /\ remote' = IF free THEN [remote EXCEPT ![d] = "on"] ELSE remote
        /\ ops' = [ops EXCEPT ![i].phase = "post_resp",
                              ![i].postStatus = IF free THEN "ok" ELSE "fail"]
  /\ ev' = EnvEvent
  /\ UNCHANGED <<build, config, listening, pc, resp, platformVars, ext,
                 writeFailed, enables, lastSet, timers, cycles>>

\* The service answers a PATCH or POST with an error status and no effect.
ServerError(i) ==
  /\ i \in 1..Len(ops)
  /\ \/ /\ ops[i].phase = "patch_req"
        /\ ops' = [ops EXCEPT ![i].phase = "patch_resp",
                              ![i].patchStatus = "fail"]
     \/ /\ ops[i].phase = "post_req"
        /\ ops' = [ops EXCEPT ![i].phase = "post_resp",
                              ![i].postStatus = "fail"]
  /\ enables' = [enables EXCEPT ![ops[i].domain] = "none"]
  /\ lastSet' = [lastSet EXCEPT ![ops[i].domain] = "none"]
  /\ ev' = EnvEvent
  /\ UNCHANGED <<build, config, listening, pc, resp, platformVars, remote,
                 ext, writeFailed, timers, cycles>>

\* The remote write of a mutator call did not happen: a request was lost in
\* the network, the PATCH of unblockDomain was refused, or the PATCH and the
\* POST of blockDomain both were.
WriteFailed(op) ==
  \/ op.patchStatus = "neterr"
  \/ op.postStatus \in {"neterr", "fail"}
  \/ op.kind = "unblock" /\ op.patchStatus = "fail"

\* Mutant: no fallback, blockDomain ends after its PATCH whatever the status.
AfterBlockPatch_NoFallback(op) == [op EXCEPT !.phase = "done"]

\* Mutant: the POST is sent after every PATCH response.
AfterBlockPatch_AlwaysPost(op) ==
  [op EXCEPT !.phase = "post_req", !.posts = @ + 1]

\* blockDomain after its PATCH: on a non-ok response it sends the POST.
AfterBlockPatch(op) ==
  IF op.patchStatus # "ok"
    THEN [op EXCEPT !.phase = "post_req", !.posts = @ + 1]
    ELSE [op EXCEPT !.phase = "done"]

\* blockDomain resumes on the response to its PATCH, or to its POST (whose
\* status it does not read). A call that has ended leaves ops.
BlockDomain(i) ==
  /\ i \in 1..Len(ops)
  /\ ops[i].kind = "block"
  /\ LET op == IF ops[i].phase = "patch_resp"
                 THEN AfterBlockPatch(ops[i])
                 ELSE [ops[i] EXCEPT !.phase = "done"]
     IN /\ ops[i].phase \in {"patch_resp", "post_resp"}
        /\ ops' = IF op.phase = "done"
                    THEN RemoveAt(ops, i) ELSE [ops EXCEPT ![i] = op]
        /\ ev' = EndEvent("blockDomain", "none", FALSE,
                          IF op.phase = "done" THEN op ELSE NoOp)
        /\ writeFailed' = IF op.phase = "done" /\ WriteFailed(op)
                            THEN [writeFailed EXCEPT ![op.domain] = "failed"]
                            ELSE writeFailed
  /\ UNCHANGED <<build, config, listening, pc, resp, platformVars, remote,
                 ext, enables, lastSet, timers, cycles>>

\* Mutant: unblockDomain falls back to the POST like blockDomain.
AfterUnblockPatch_Fallback(op) ==
  IF op.patchStatus # "ok"
    THEN [op EXCEPT !.phase = "post_req", !.posts = @ + 1]
    ELSE [op EXCEPT !.phase = "done"]

\* unblockDomain after its PATCH: the response is not read.
AfterUnblockPatch(op) == [op EXCEPT !.phase = "done"]

\* unblockDomain resumes on the response to its PATCH and ends.
UnblockDomain(i) ==
  /\ i \in 1..Len(ops)
  /\ ops[i].kind = "unblock"
  /\ ops[i].phase = "patch_resp"
  /\ LET op == AfterUnblockPatch(ops[i])
     IN /\ ops' = IF op.phase = "done"
                    THEN RemoveAt(ops, i) ELSE [ops EXCEPT ![i] = op]
        /\ ev' = EndEvent("unblockDomain", "none", FALSE,
                          IF op.phase = "done" THEN op ELSE NoOp)
        /\ writeFailed' = IF op.phase = "done" /\ WriteFailed(op)
                            THEN [writeFailed EXCEPT ![op.domain] = "failed"]
                            ELSE writeFailed
  /\ UNCHANGED <<build, config, listening, pc, resp, platformVars, remote,
                 ext, enables, lastSet, timers, cycles>>

\* How a rejected fetch leaves blockDomain / unblockDomain: part_001 catches
\* it and warns; src/platform.ts has no try, the promise (which setOn
\* dropped) rejects.
MutatorCatch(b) ==
  IF b = "part_001"
    THEN [phase |-> "failed", log |-> "warn", escaped |-> FALSE]
    ELSE [phase |-> "rejected", log |-> "none", escaped |-> TRUE]

\* The PATCH or POST of a mutator fails in the network: the request does not
\* reach the service and fetch rejects.
MutatorNetworkError(i) ==
  /\ i \in 1..Len(ops)
  /\ LET c == MutatorCatch(build)
         op == IF ops[i].phase = "patch_req"
                 THEN [ops[i] EXCEPT !.phase = c.phase, !.patchStatus = "neterr"]
                 ELSE [ops[i] EXCEPT !.phase = c.phase, !.postStatus = "neterr"]
     IN /\ ops[i].phase \in {"patch_req", "post_req"}
        /\ ops' = RemoveAt(ops, i)
        /\ ev' = EndEvent(IF op.kind = "block"
                            THEN "blockDomain" ELSE "unblockDomain",
                          c.log, c.escaped, op)
  /\ writeFailed' = [writeFailed EXCEPT ![ops[i].domain] = "failed"]
  /\ enables' = [enables EXCEPT ![ops[i].domain] = "none"]
  /\ lastSet' = [lastSet EXCEPT ![ops[i].domain] = "none"]
  /\ UNCHANGED <<build, config, listening, pc, resp, platformVars, remote,
                 ext, timers, cycles>>

\* ------------------------------------------------------------ environment
\* Someone else toggles the active flag of an entry of the denylist.
ExternalChange(d) ==
  /\ remote[d] # "absent"
  /\ remote' = [remote EXCEPT ![d] = IF @ = "on" THEN "off" ELSE "on"]
  /\ ext' = [ext EXCEPT ![d] = "changed"]
  /\ enables' = [enables EXCEPT ![d] = "none"]
  /\ lastSet' = [lastSet EXCEPT ![d] = "none"]
  /\ ev' = EnvEvent
  /\ UNCHANGED <<build, config, listening, pc, resp, platformVars, ops,
                 writeFailed, timers, cycles>>

\* ---------------------------------------------------------- specification
Next ==
  \/ \E d \in Domain, prev \in BOOLEAN : ConfigureAccessory(d, prev)
  \/ DidFinishLaunching
  \/ ServerGet
  \/ DiscoverDevices
  \/ SyncConfig
  \/ TimerFire
  \/ \E d \in Domain, value \in BOOLEAN : HostSet(d, value, MaxInFlight)
  \/ \E d \in Domain : GetOn(d)
  \/ \E i \in 1..MaxInFlight : ServerPatch(i)
  \/ \E i \in 1..MaxInFlight : ServerPost(i)
  \/ \E i \in 1..MaxInFlight : ServerError(i)
  \/ \E i \in 1..MaxInFlight : BlockDomain(i)
  \/ \E i \in 1..MaxInFlight : UnblockDomain(i)
  \/ \E i \in 1..MaxInFlight : MutatorNetworkError(i)
  \/ \E d \in Domain : ExternalChange(d)

Spec == Init /\ [][Next]_vars

\* ================================================================ claims
Configured == Range(config.blockedDomains)
ConfigOK == config.apiKey /\ config.profileId

\* A step of syncConfig from its await on: the poll tick.
Tick == pc = "syncResp" /\ pc' # "syncResp"
\* A poll tick whose read failed / that got a denylist.
FailedTick == Tick /\ resp.kind \in FailureKinds
GoodTick == Tick /\ resp.kind = "list"

\* C1: a poll tick whose read of the profile fails (network error, non-2xx,
\* malformed payload) changes neither the cached boolean nor the On
\* characteristic of any switch.
C1_FetchFailureLeavesStateUnchanged ==
  [][FailedTick => (isOn' = isOn /\ charOn' = charOn)]_vars

\* A failed tick has run and left a switch on.
C1_Witness ==
  /\ ev.act = "syncConfig" /\ ~ev.v
  /\ \E d \in BlockedDomainAccessories : isOn[d] /\ remote[d] # "on"

\* C2: after every poll tick, whatever its fetch came back as, the next tick
\* is scheduled.
C2_NextTickScheduled ==
  [][Tick => pc' = "timer"]_vars

\* C3: after an out-of-band change of an entry with no Set on its domain
\* since, the poll tick that fetched the denylist after the change leaves Get
\* of the domain's switch at the fetched value.
C3_DivergenceSelfHealing ==
  [][GoodTick =>
       \A d \in BlockedDomainAccessories :
         (ext[d] = "fetched" /\ resp.denylist[d] # "absent")
           => GetOnValue(d)' = (resp.denylist[d] = "on")]_vars

\* A poll tick has applied an out-of-band change: the switch shows the value
\* the other party wrote, which no mutator call of this process produced.
C3_Witness ==
  /\ ev.act = "syncConfig" /\ ev.v
  /\ \E d \in BlockedDomainAccessories :
       /\ ext[d] = "synced"
       /\ ops = <<>>
       /\ GetOnValue(d) = (remote[d] = "on")
       /\ GetOnValue(d) # ctxIsOn[d]

\* C4: right after a poll tick that fetched the denylist, Get of the switch
\* of every configured domain with an entry in it returns the entry's active
\* flag.
C4_PollPostcondition ==
  [][GoodTick =>
       \A d \in Configured :
         resp.denylist[d] # "absent"
           => GetOnValue(d)' = (resp.denylist[d] = "on")]_vars

\* A poll tick turned on the switch of a configured domain that discovery
\* had seeded off, whose accessory was not restored from the cache.
C4_Witness ==
  /\ ev.act = "syncConfig" /\ ev.v
  /\ \E d \in Configured :
       GetOnValue(d) /\ ~ctxIsOn[d] /\ d \notin accessories /\ remote[d] = "on"

\* C5: a Get that follows a Set(v) on the same switch immediately returns v.
C5_OptimisticLocalEcho ==
  [][(ev.act = "setOn" /\ ev'.act = "getOn" /\ ev'.d = ev.d)
       => ev'.v = ev.v]_vars

\* Get returned true while the PATCH of the Set is still unanswered and the
\* remote entry is not active.
C5_Witness ==
  /\ ev.act = "getOn" /\ ev.v
  /\ Len(ops) = 1
  /\ ops[1].domain = ev.d /\ ops[1].kind = "block" /\ ops[1].phase = "patch_req"
  /\ remote[ev.d] # "on"

\* What C6 says of one blockDomain call, in flight or just ended: one PATCH;
\* a POST only after a non-2xx PATCH response, at most one, and one once
\* blockDomain has resumed on such a response.
EnableSendsRight(op) ==
  op.kind = "block" =>
    /\ op.patches = 1
    /\ op.posts \in {0, 1}
    /\ op.posts = 1 => op.patchStatus = "fail"
    /\ (op.patchStatus = "fail" /\ op.phase # "patch_resp") => op.posts = 1

\* C6: every Enable sends exactly one PATCH, and exactly one POST if and only
\* if the PATCH came back non-2xx, after that response.
C6_FallbackCreation ==
  /\ \A i \in 1..Len(ops) : EnableSendsRight(ops[i])
  /\ EnableSendsRight(ev.op)

\* An Enable ended whose PATCH was refused and whose POST created the entry;
\* and Enables whose PATCH succeeded end too.
C6_Witness ==
  /\ ev.op.kind = "block" /\ ev.op.phase = "done"
  /\ ev.op.patchStatus = "fail" /\ ev.op.postStatus = "ok" /\ ev.op.posts = 1
  /\ remote[ev.op.domain] = "on"

\* C7: the promise of Set is resolved while the mutator call is in flight,
\* and when the remote write fails the promise stays resolved and the cached
\* boolean stays where it was.
C7_SetIndependentOfRemoteWrite ==
  [][/\ \A i \in 1..Len(ops') : ops'[i].setResult = "resolved"
     /\ WriteFailed(ev'.op) =>
          (isOn' = isOn /\ ev'.op.setResult = "resolved")]_vars

\* The remote write of a Set(true) failed: the switch is on, the entry is not.
C7_Witness ==
  /\ WriteFailed(ev.op) /\ ev.op.kind = "block"
  /\ isOn[ev.op.domain] /\ remote[ev.op.domain] # "on"
  /\ ev.op.setResult = "resolved"

\* C8 as stated: after the remote write of a Set failed, the poll tick that
\* fetched the denylist after the failure leaves the cached boolean at the
\* remote state of the domain (not blocked when the denylist has no entry
\* for it).
C8_Original ==
  [][GoodTick =>
       \A d \in BlockedDomainAccessories :
         writeFailed[d] = "fetched" => isOn'[d] = (resp.denylist[d] = "on")]_vars

\* C8 amended: ... when the fetched denylist has an entry for the domain, the
\* tick leaves the cached boolean at that entry's active flag.
C8_RecoveryAfterFailedMutation ==
  [][GoodTick =>
       \A d \in BlockedDomainAccessories :
         (writeFailed[d] = "fetched" /\ resp.denylist[d] # "absent")
           => isOn'[d] = (resp.denylist[d] = "on")]_vars

\* A poll tick has overwritten the value a failed Set had left.
C8_Witness ==
  /\ ev.act = "syncConfig" /\ ev.v
  /\ \E d \in BlockedDomainAccessories :
       writeFailed[d] = "healed" /\ ops = <<>> /\ isOn[d] = (remote[d] = "on")

\* What C9 says apart from the level of the log entry: nothing was fetched,
\* created, registered or unregistered, no loop runs, nothing was thrown.
NoDiscovery ==
  /\ ~listening
  /\ pc \in {"constructed", "idle"}
  /\ resp = NoResp
  /\ BlockedDomainAccessories = {}
  /\ discoveredCacheUUIDs = {}
  /\ \A d \in Domain : registered[d] = 0
  /\ unregistered = {}
  /\ ops = <<>>
  /\ ~ev.escaped

\* C9 as stated: without apiKey or profileId the constructor logs a warning
\* and there is no discovery.
C9_Original ==
  ~ConfigOK =>
    /\ NoDiscovery
    /\ ev.act = "constructor" => ev.log = "warn"

\* C9 amended: ... the constructor logs the diagnostic, at level warn in
\* part_001 and at level error in src/platform.ts, and there is no discovery.
C9_ConfigurationGuard ==
  ~ConfigOK =>
    /\ NoDiscovery
    /\ ev.act = "constructor" =>
         ev.log = (IF build = "part_001" THEN "warn" ELSE "error")

\* The host has launched an unconfigured platform that holds a restored
\* accessory: nothing happened.
C9_Witness ==
  ~ConfigOK /\ pc = "idle" /\ accessories # {}

\* C10: no HTTP failure makes an exception or rejection leave discovery, the
\* poll loop, Enable or Disable; said of part_001, the source with the
\* try/catch.
C10_NoFailureEscapes ==
  build = "part_001" => ~ev.escaped

\* C11: while Enable calls on a domain follow one another with no Disable, no
\* failed request and no out-of-band change in between, once no Enable is in
\* flight the domain's entry is there and active - after two calls as after
\* one, whether the entry existed before the first call or not.
C11_EnableIdempotence ==
  \A d \in Domain :
    (/\ enables[d] # "none"
     /\ \A i \in 1..Len(ops) : ~(ops[i].kind = "block" /\ ops[i].domain = d))
      => remote[d] = "on"

\* A second Enable has ended on a domain that had no entry before the first:
\* its PATCH found the entry the first call's POST had created.
C11_Witness ==
  /\ ev.op.kind = "block" /\ ev.op.phase = "done"
  /\ ev.op.patchStatus = "ok" /\ ev.op.posts = 0
  /\ enables[ev.op.domain] = "new2"
  /\ ops = <<>>
  /\ remote[ev.op.domain] = "on"

\* A step of discoverDevices from its await on that reaches its end.
Discovered == pc = "discoverResp" /\ pc' = "syncReq"

LoopStarted == pc \in {"syncReq", "syncResp", "timer", "syncRejected"}

\* C13: once the reconciliation loop has been started, discovery has
\* registered each configured domain that had no cached accessory exactly
\* once and no other domain, and has unregistered exactly the cached
\* accessories of domains that are not configured; before that, nothing of
\* the loop runs.
C13_DiscoveryRegistration ==
  LoopStarted =>
    /\ \A d \in Domain :
         registered[d] = (IF d \in Configured \ accessories THEN 1 ELSE 0)
    /\ unregistered = accessories \ Configured

\* C14: a poll tick that fetched the denylist leaves, for every entry whose
\* domain has a switch accessory with a cached boolean that differs from the
\* entry's active flag, both the On characteristic and the cached boolean at
\* that flag - for restored accessories and for those discovery created.
\* Said of part_001.
C14_BothMirrorsUpdated ==
  [][(GoodTick /\ build = "part_001") =>
       \A d \in BlockedDomainAccessories :
         (resp.denylist[d] # "absent" /\ isOn[d] # (resp.denylist[d] = "on")) =>
           /\ charOn'[d] = (resp.denylist[d] = "on")
           /\ isOn'[d] = (resp.denylist[d] = "on")]_vars

\* The fetcher of part_001 returns its failure indicator on the response.
FetcherFailed == build = "part_001" /\ GetNextDNSProfileData(resp).ret = "null"

\* C15: when the fetcher returns its failure indicator its caller changes no
\* switch state: a poll tick leaves the cached booleans, the persisted isOn
\* and the On characteristics as they are, and startup discovery leaves a
\* restored accessory's persisted isOn at its previous value and gives its
\* cached boolean that value.
C15_MissingDataMeansNoChange ==
  [][FetcherFailed =>
       /\ Tick => (isOn' = isOn /\ ctxIsOn' = ctxIsOn /\ charOn' = charOn)
       /\ (pc = "discoverResp" /\ pc' # "discoverResp") =>
            \A d \in accessories :
              /\ ctxIsOn'[d] = ctxIsOn[d]
              /\ charOn'[d] = charOn[d]
              /\ d \in BlockedDomainAccessories' => isOn'[d] = ctxIsOn[d]]_vars

\* C16 as stated: while a fetch+update cycle is in flight nothing prevents a
\* second one from starting: the timer that starts it can fire.
C16_Original ==
  cycles > 0 => ENABLED TimerFire

\* C16 amended: fetch+update cycles never overlap. syncConfig arms the timer
\* of the next cycle as its last statement, after its fetch and updates: at
\* any time at most one cycle is in flight or one timer armed, never both.
C16_NoOverlappingRuns ==
  cycles + timers <= 1

\* A cycle started by the timer is in flight, after an earlier cycle applied
\* an out-of-band change; no timer is armed while it runs.
C16_Witness ==
  /\ pc \in {"syncReq", "syncResp"}
  /\ cycles = 1 /\ timers = 0
  /\ \E d \in Domain : ext[d] = "synced"

\* A Set on d has been made whose PATCH has not reached the service: every
\* response fetched so far shows the remote state from before its write.
SetInFlight(d) ==
  \E i \in 1..Len(ops) : ops[i].domain = d /\ ops[i].phase = "patch_req"

\* C17: a Set and a poll tick that race on a domain leave the cached boolean
\* at what the later of the two wrote: a tick that runs while the Set's
\* write is still on its way stores the fetched, older, active flag over the
\* value just set, and a Set stores its value over whatever a tick left.
C17_SetPollRace ==
  [][/\ GoodTick =>
          \A d \in BlockedDomainAccessories :
            (SetInFlight(d) /\ resp.denylist[d] # "absent")
              => isOn'[d] = (resp.denylist[d] = "on")
     /\ ev'.act = "setOn" => isOn'[ev'.d] = ev'.v]_vars

\* The tick wrote last: the switch shows the fetched value, the opposite of
\* the value of the Set whose PATCH is still unanswered.
C17_Witness ==
  /\ ev.act = "syncConfig" /\ ev.v
  /\ \E i \in 1..Len(ops) :
       /\ ops[i].phase = "patch_req"
       /\ ops[i].domain \in BlockedDomainAccessories
       /\ isOn[ops[i].domain] # (ops[i].kind = "block")
       /\ isOn[ops[i].domain] = (remote[ops[i].domain] = "on")

\* The Set wrote last: after a tick left the switch at the remote value, the
\* switch shows the value of the Set, the opposite of the remote state.
C17_WitnessSetLast ==
  /\ ev.act = "setOn" /\ pc = "timer"
  /\ isOn[ev.d] = ev.v
  /\ remote[ev.d] # "absent" /\ ev.v # (remote[ev.d] = "on")

\* C18: a poll tick changes neither the cached boolean nor the On
\* characteristic of a configured domain without an entry in the fetched
\* denylist; no step of the loop (the timer firing, the tick) sends a PATCH
\* or POST or changes the remote denylist; and an entry comes into being
\* only through the POST of an Enable.
C18_LoopLeavesAbsentAlone ==
  [][/\ Tick =>
          \A d \in Configured :
            resp.denylist[d] = "absent"
              => (isOn'[d] = isOn[d] /\ charOn'[d] = charOn[d])
     /\ (Tick \/ ev'.act = "timer") => (ops' = ops /\ remote' = remote)
     /\ \A d \in Domain :
          (remote[d] = "absent" /\ remote'[d] # "absent") =>
            \E i \in 1..Len(ops) :
              /\ ops[i].kind = "block" /\ ops[i].domain = d
              /\ ops[i].phase = "post_req"]_vars

\* A tick that fetched the denylist has run and left on the switch of a
\* configured domain that has no entry, with no Enable in flight.
C18_Witness ==
  /\ ev.act = "syncConfig" /\ ev.v
  /\ ops = <<>>
  /\ \E d \in Configured : isOn[d] /\ remote[d] = "absent"

\* C19: once discovery has unregistered the cached accessory of a domain
\* that is no longer configured, no poll tick changes that accessory's On
\* characteristic, its persisted isOn or a cached boolean for the domain.
C19_RemovedDomainNotReconciled ==
  [][Tick =>
       \A d \in unregistered :
         /\ charOn'[d] = charOn[d]
         /\ ctxIsOn'[d] = ctxIsOn[d]
         /\ isOn'[d] = isOn[d]]_vars

\* What C20 says of one unblockDomain call, in flight or just ended: one
\* PATCH (of active=false, the kind of the call) and no POST.
DisableSendsRight(op) ==
  op.kind = "unblock" =>
    (op.patches = 1 /\ op.posts = 0 /\ op.postStatus = "none")

\* C20: every Disable sends exactly one PATCH and never a POST, whatever the
\* answer to the PATCH, and a step that handles the request of a Disable on
\* a domain without an entry leaves the remote denylist as it is.
C20_DisableNeverCreates ==
  [][/\ \A i \in 1..Len(ops') : DisableSendsRight(ops'[i])
     /\ DisableSendsRight(ev'.op)
     /\ \A i \in 1..Len(ops) :
          (/\ ops[i].kind = "unblock"
           /\ remote[ops[i].domain] = "absent"
           /\ Len(ops') = Len(ops)
           /\ ops'[i] # ops[i])
            => remote' = remote]_vars

\* A Disable has ended on a domain without an entry: its PATCH was refused,
\* no POST was sent, there still is no entry.
C20_Witness ==
  /\ ev.op.kind = "unblock" /\ ev.op.phase = "done"
  /\ ev.op.patchStatus = "fail" /\ ev.op.posts = 0
  /\ remote[ev.op.domain] = "absent"

\* ------------------------------------------------------------ racing Sets
\* The configured platform of part_001 on a profile whose denylist has no
\* entry yet, with Sets from the host arriving while the mutator call of an
\* earlier Set is still in flight (setOn does not await it).
InitRacingSets ==
  /\ Init
  /\ build = "part_001"
  /\ ConfigOK
  /\ remote = NoList

NextRacingSets ==
  \/ \E d \in Domain, prev \in BOOLEAN : ConfigureAccessory(d, prev)
  \/ DidFinishLaunching
  \/ ServerGet
  \/ DiscoverDevices
  \/ SyncConfig
  \/ TimerFire
  \/ \E d \in Domain, value \in BOOLEAN : HostSet(d, value, MaxRacing)
  \/ \E d \in Domain : GetOn(d)
  \/ \E i \in 1..MaxRacing : ServerPatch(i)
  \/ \E i \in 1..MaxRacing : ServerPost(i)
  \/ \E i \in 1..MaxRacing : ServerError(i)
  \/ \E i \in 1..MaxRacing : BlockDomain(i)
  \/ \E i \in 1..MaxRacing : UnblockDomain(i)
  \/ \E i \in 1..MaxRacing : MutatorNetworkError(i)
  \/ \E d \in Domain : ExternalChange(d)

SpecRacingSets == InitRacingSets /\ [][NextRacingSets]_vars

\* C21: once every request of the Sets made on a domain has completed, none
\* of them lost or answered with a server error, their PATCHes handled in
\* the order of the calls and the entry not changed out of band, the entry
\* is active if the last Set was true, and absent or inactive if the last
\* Set was false.
C21_LastSetWins ==
  ops = <<>> =>
    \A d \in Domain :
      /\ lastSet[d] = "on" => remote[d] = "on"
      /\ lastSet[d] = "off" => remote[d] # "on"

====
